---- MODULE Spec2Model ----
(***************************************************************************)
(* consul-kv-sync: synchronises JSON manifests with consul's key-value     *)
(* store.  The model covers lib/workflow.js (readPointers, reduce,         *)
(* getExistingKeys, put, add, del and the exec/update/add pipelines) and   *)
(* the command-line driver consul-kv-sync.js that starts one of them and   *)
(* turns the outcome into an exit status.                                  *)
(*                                                                         *)
(* Text (keys, pointers, stored values) is a sequence of one-character     *)
(* strings, so that substring(1), prefix matching and '' + value are       *)
(* computed rather than assumed.                                           *)
(***************************************************************************)
EXTENDS Integers, Sequences, FiniteSets, TLC

(* ------------------------------ bounds -------------------------------- *)

\* at most this many manifest files on the command line
MaxFiles == 2

\* at most this many consecutive invocations of the tool on the same store
MaxRuns == 2

(* ---------------------------- JSON values ----------------------------- *)

Str(s) == [type |-> "string", s |-> s]
Num(n) == [type |-> "number", n |-> n]
Bool(b) == [type |-> "boolean", b |-> b]
Null == [type |-> "null"]
\* the number a literal beyond the double range parses to (1e999)
Infinity == [type |-> "number", infinite |-> TRUE]
\* members: sequence of <<name, value>> in document order
Obj(members) == [type |-> "object", members |-> members]
Arr(items) == [type |-> "array", items |-> items]

\* '' + n for an integer n
RECURSIVE Decimal(_)
Decimal(n) ==
  IF n < 0 THEN <<"-">> \o Decimal(0 - n)
  ELSE IF n < 10 THEN <<(<<"0", "1", "2", "3", "4", "5", "6", "7", "8", "9">>)[n + 1]>>
  ELSE Decimal(n \div 10) \o Decimal(n % 10)

\* '' + value, for the values reduce retains
ToText(v) == IF v.type = "string" THEN v.s ELSE Decimal(v.n)

\* the property names _.keys(contents) enumerates
KeysOf(v) ==
  IF v.type = "object" THEN [i \in 1..Len(v.members) |-> v.members[i][1]]
  ELSE IF v.type = "array" THEN [i \in 1..Len(v.items) |-> Decimal(i - 1)]
  ELSE <<>>

\* jptr.list(contents): every node of the tree with its JSON pointer, a
\* container before its children, children in document order
RECURSIVE List(_, _)
RECURSIVE ListChildren(_, _, _, _)
ListChildren(path, names, values, i) ==
  IF i > Len(names) THEN <<>>
  ELSE List(path \o <<"/">> \o names[i], values[i])
         \o ListChildren(path, names, values, i + 1)
List(path, v) ==
  <<[pointer |-> path, value |-> v]>> \o
    (IF v.type = "object"
       THEN ListChildren(path, KeysOf(v),
                         [i \in 1..Len(v.members) |-> v.members[i][2]], 1)
     ELSE IF v.type = "array"
       THEN ListChildren(path, KeysOf(v), v.items, 1)
     ELSE <<>>)

\* String.prototype.substring(1)
Substring1(s) == IF s = <<>> THEN <<>> ELSE Tail(s)

(* ------------------------- manifests on disk -------------------------- *)

Parsed(v) == [parses |-> TRUE, contents |-> v]
Malformed == [parses |-> FALSE]

\* {"s": {"a": "1", "b": 2}}
FileA == Parsed(Obj(<< <<<<"s">>, Obj(<< <<<<"a">>, Str(<<"1">>)>>,
                                          <<<<"b">>, Num(2)>> >>)>> >>))
\* {"s": {"a": "3", "n": {"c": "x"}}}
FileB == Parsed(Obj(<< <<<<"s">>, Obj(<< <<<<"a">>, Str(<<"3">>)>>,
                                          <<<<"n">>, Obj(<< <<<<"c">>, Str(<<"x">>)>> >>)>> >>)>> >>))
\* {"o": {"a": "1"}}
FileC == Parsed(Obj(<< <<<<"o">>, Obj(<< <<<<"a">>, Str(<<"1">>)>> >>)>> >>))
\* {"": {"a": "1"}}
FileD == Parsed(Obj(<< <<<<>>, Obj(<< <<<<"a">>, Str(<<"1">>)>> >>)>> >>))
\* {}
FileE == Parsed(Obj(<<>>))
\* {"s": {"t": true, "z": null, "h": 1e999, "l": [10]}, "o": {"q": "1"}}
FileG == Parsed(Obj(<< <<<<"s">>, Obj(<< <<<<"t">>, Bool(TRUE)>>,
                                          <<<<"z">>, Null>>,
                                          <<<<"h">>, Infinity>>,
                                          <<<<"l">>, Arr(<<Num(10)>>)>> >>)>>,
                       <<<<"o">>, Obj(<< <<<<"q">>, Str(<<"1">>)>> >>)>> >>))

Manifests == {FileA, FileB, FileC, FileD, FileE, FileG, Malformed}

FileLists == UNION {[1..n -> Manifests] : n \in 0..MaxFiles}

\* contents of the store before the first invocation
InitialKeys == {<<"s", "/", "a">>, <<"s", "/", "o", "l", "d">>, <<"o", "/", "x">>}
InitialStores == {[k \in K |-> <<"9">>] : K \in SUBSET InitialKeys}

(* ------------------------------- state -------------------------------- *)

VARIABLES
  files,        \* program.args: the manifests named on the command line
  store,        \* consul's key-value store: key -> stored text
  pc,           \* position of the invocation
  mode,         \* updateMethod: "exec", "update" or "add"; "get" for program.get
  inspect,      \* program.get and program.json: the key path and the output form
  read,         \* Promise.map(files, readPointers), per file: "pending" or "done"
  readOrder,    \* indices of the files in the order their reads completed
  prefix,       \* workflow.prefix
  config,       \* workflow.config
  existing,     \* workflow.existing
  observed,     \* what the kv.keys request of this invocation returned
  stats,        \* workflow.stats
  keysInflight, \* a kv.keys request is in flight
  keysReply,    \* how consul answered it: "keys", "not found" or "error"
  treeInflight, \* a read of the whole branch (consul-kv-object get) is in flight
  nTree,        \* branch reads dispatched by this invocation
  setInflight,  \* kv.set requests in flight: key -> text sent
  delInflight,  \* kv.del requests in flight
  nKeys,        \* kv.keys requests dispatched by this invocation
  nSet,         \* kv.set requests dispatched by this invocation, per key
  nDel,         \* kv.del requests dispatched by this invocation, per key
  setSent,      \* text sent by the kv.set of each key
  setFailed,    \* keys whose kv.set was rejected
  err,          \* the error the invocation ended with
  exit,         \* process exit status, -1 while running
  run,          \* number of the current invocation
  startStore,   \* store at the start of the current invocation
  history       \* one record per completed earlier invocation

vars == <<files, store, pc, mode, read, readOrder, prefix, config, existing,
          observed, inspect, keysReply, treeInflight, nTree,
          stats, keysInflight, setInflight, delInflight, nKeys, nSet, nDel,
          setSent, setFailed, err, exit, run, startStore, history>>

Undefined == [defined |-> FALSE, v |-> <<>>]
Defined(v) == [defined |-> TRUE, v |-> v]

\* JavaScript truthiness of workflow.prefix: undefined and '' are falsy
Truthy(p) == p.defined /\ p.v # <<>>

\* the empty function (an object without properties, an empty array)
Empty == <<>>

\* a deterministic enumeration of a finite set
RECURSIVE SetToSeq(_)
SetToSeq(S) ==
  IF S = {} THEN <<>>
  ELSE LET x == CHOOSE y \in S : TRUE IN <<x>> \o SetToSeq(S \ {x})

Range(s) == {s[i] : i \in DOMAIN s}

\* f with the entry k -> v set
Assign(f, k, v) == [x \in DOMAIN f \cup {k} |-> IF x = k THEN v ELSE f[x]]

\* f with the count of k raised by one
Count(f, k) == IF k \in DOMAIN f THEN f[k] ELSE 0
Bump(f, k) == Assign(f, k, Count(f, k) + 1)

\* f without the entry of k
Drop(f, k) == [x \in DOMAIN f \ {k} |-> f[x]]

\* the key paths an inspection may be given (-g without a path gives '')
KeyPaths == {<<>>, <<"s", "/">>}

\* program.get / program.json of an inspection; NoInspect without -g
InspectOptions == [keypath : KeyPaths, json : BOOLEAN]
NoInspect == [keypath |-> <<>>, json |-> FALSE]

Init ==
  /\ files \in FileLists
  /\ store \in InitialStores
  /\ pc = "start"
  /\ mode \in {"exec", "update", "add", "get"}
  /\ inspect \in IF mode = "get" THEN InspectOptions ELSE {NoInspect}
  /\ read = Empty
  /\ readOrder = <<>>
  /\ prefix = Undefined
  /\ config = Undefined
  /\ existing = Undefined
  /\ observed = Undefined
  /\ stats = [put |-> 0, deleted |-> 0]
  /\ keysInflight = FALSE
  /\ keysReply = "none"
  /\ treeInflight = FALSE
  /\ nTree = 0
  /\ setInflight = Empty
  /\ delInflight = {}
  /\ nKeys = 0
  /\ nSet = Empty
  /\ nDel = Empty
  /\ setSent = Empty
  /\ setFailed = {}
  /\ err = "none"
  /\ exit = -1
  /\ run = 1
  /\ startStore = store
  /\ history = <<>>

(* --------------------------- the driver ------------------------------- *)

\* consul-kv-sync.js: no file arguments: help text and exit status 1
Usage ==
  /\ pc = "start"
  /\ mode # "get"
  /\ Len(files) = 0
  /\ pc' = "failed"
  /\ err' = "usage"
  /\ exit' = 1
  /\ UNCHANGED <<files, inspect, treeInflight, nTree, keysReply, observed,
                 store, mode, read, readOrder, prefix, config, existing,
                 stats, keysInflight, setInflight, delInflight, nKeys, nSet,
                 nDel, setSent, setFailed, run, startStore, history>>

\* the driver gets to workflow[m](): the get branch was not taken (it
\* returns) and updateMethod is m
RunsWorkflowAfterGet(md, m) == md = m \/ (md = "get" /\ m = "exec")
RunsWorkflow(md, m) == md = m

\* workflow[updateMethod](): Promise.map(files, readPointers) starts the
\* read of every file
Start(m) ==
  /\ pc = "start"
  /\ Len(files) > 0
  /\ RunsWorkflow(mode, m)
  /\ read' = [i \in 1..Len(files) |-> "pending"]
  /\ pc' = "reading"
  /\ UNCHANGED <<files, inspect, treeInflight, nTree, keysReply, observed,
                 store, mode, readOrder, prefix, config, existing, stats,
                 keysInflight, setInflight, delInflight, nKeys, nSet, nDel,
                 setSent, setFailed, err, exit, run, startStore, history>>

Exec == Start("exec")
Update == Start("update")
Add == Start("add")

\* the rejection handler of the driver: log the error, process.exit(99)
Fail(e) ==
  /\ pc' = "failed"
  /\ err' = e
  /\ exit' = 99

(* -------------------------- readPointers ------------------------------ *)

\* what readPointers does with one file, given workflow.prefix:
\* the error it throws ("none" when it returns) and workflow.prefix after
ReadOutcomeAcceptsEmpty(file, wprefix) ==
  IF ~file.parses THEN [error |-> "ParseError", prefix |-> wprefix]
  ELSE IF Len(KeysOf(file.contents)) = 0
    THEN [error |-> "none", prefix |-> wprefix]
  ELSE LET pointers == List(<<>>, file.contents)
           p == Substring1(pointers[2].pointer)
       IN IF Truthy(wprefix)
            THEN IF p # wprefix.v
                   THEN [error |-> "ConsistencyError", prefix |-> wprefix]
                   ELSE [error |-> "none", prefix |-> wprefix]
            ELSE [error |-> "none", prefix |-> Defined(p)]
ReadOutcome(file, wprefix) ==
  IF ~file.parses THEN [error |-> "ParseError", prefix |-> wprefix]
  ELSE IF Len(KeysOf(file.contents)) = 0
    THEN [error |-> "SchemaError", prefix |-> wprefix]
  ELSE LET pointers == List(<<>>, file.contents)
           p == Substring1(pointers[2].pointer)
       IN IF Truthy(wprefix)
            THEN IF p # wprefix.v
                   THEN [error |-> "ConsistencyError", prefix |-> wprefix]
                   ELSE [error |-> "none", prefix |-> wprefix]
            ELSE [error |-> "none", prefix |-> Defined(p)]

\* the read of file i completes and its readPointers continuation runs
ReadPointers(i) ==
  /\ pc = "reading"
  /\ i \in DOMAIN read
  /\ read[i] = "pending"
  /\ LET out == ReadOutcome(files[i], prefix) IN
       /\ prefix' = out.prefix
       /\ IF out.error = "none"
            THEN /\ read' = [read EXCEPT ![i] = "done"]
                 /\ readOrder' = Append(readOrder, i)
                 /\ UNCHANGED <<pc, err, exit>>
            ELSE /\ Fail(out.error)
                 /\ UNCHANGED <<read, readOrder>>
  /\ UNCHANGED <<files, inspect, treeInflight, nTree, keysReply, observed,
                 store, mode, config, existing, stats, keysInflight,
                 setInflight, delInflight, nKeys, nSet, nDel, setSent,
                 setFailed, run, startStore, history>>

(* ------------------------- flatten and reduce ------------------------- *)

\* the array Promise.map(files, readPointers) fulfils with: the pointer list
\* of each file at the index of the file, whatever order the reads
\* completed in
MapResultsInCompletionOrder(fs, order) ==
  [j \in 1..Len(order) |-> List(<<>>, fs[order[j]].contents)]
MapResults(fs, order) == [i \in 1..Len(fs) |-> List(<<>>, fs[i].contents)]

\* _.flatten
RECURSIVE Flatten(_)
Flatten(lists) ==
  IF lists = <<>> THEN <<>> ELSE Head(lists) \o Flatten(Tail(lists))

\* _.isFinite
IsFinite(v) == v.type = "number" /\ "n" \in DOMAIN v

\* the filter of reduce: _.isString(x.value) || _.isFinite(x.value)
RetainedWithBooleans(x) ==
  x.value.type = "string" \/ IsFinite(x.value) \/ x.value.type = "boolean"
Retained(x) == x.value.type = "string" \/ IsFinite(x.value)

\* the fold of reduce: acc[item.pointer.substring(1)] = item.value
ReduceStepAsText(acc, item) ==
  Assign(acc, Substring1(item.pointer), Str(ToText(item.value)))
ReduceStep(acc, item) == Assign(acc, Substring1(item.pointer), item.value)

RECURSIVE ReduceFrom(_, _, _)
ReduceFrom(flattened, i, acc) ==
  IF i > Len(flattened) THEN acc
  ELSE ReduceFrom(flattened, i + 1,
                  IF Retained(flattened[i]) THEN ReduceStep(acc, flattened[i])
                  ELSE acc)

ReduceAll(flattened) == ReduceFrom(flattened, 1, Empty)

\* every read has completed: .then(_.flatten).then(reduce)
Reduce ==
  /\ pc = "reading"
  /\ \A i \in DOMAIN read : read[i] = "done"
  /\ \E flattened \in {Flatten(MapResults(files, readOrder))} :
       config' = Defined(ReduceAll(flattened))
  /\ pc' = "reduced"
  /\ UNCHANGED <<files, inspect, treeInflight, nTree, keysReply, observed,
                 store, mode, read, readOrder, prefix, existing, stats,
                 keysInflight, setInflight, delInflight, nKeys, nSet, nDel,
                 setSent, setFailed, err, exit, run, startStore, history>>

(* ------------------------- getExistingKeys ---------------------------- *)

IsPrefixOf(p, k) == Len(p) <= Len(k) /\ SubSeq(k, 1, Len(p)) = p

\* the argument getExistingKeys passes to client.kv.keysAsync
KeysPath(wprefix) == <<>>

\* the keys consul lists under a path
ListKeys(s, path) == SetToSeq({k \in DOMAIN s : IsPrefixOf(path, k)})

\* the pointer lists have been consumed and the bookkeeping of the reads
\* is dropped; getExistingKeys sends the kv.keys request
GetExistingKeys ==
  /\ pc = "reduced"
  /\ read' = Empty
  /\ readOrder' = <<>>
  /\ keysInflight' = TRUE
  /\ nKeys' = nKeys + 1
  /\ pc' = "listing"
  /\ UNCHANGED <<files, inspect, treeInflight, nTree, keysReply, observed,
                 store, mode, prefix, config, existing, stats, setInflight,
                 delInflight, nSet, nDel, setSent, setFailed, err, exit, run,
                 startStore, history>>

\* the kv.keys request is answered with the keys found
KeysOk ==
  /\ pc = "listing"
  /\ keysInflight
  /\ ListKeys(store, KeysPath(prefix)) # <<>>
  /\ keysInflight' = FALSE
  /\ keysReply' = "keys"
  /\ existing' = Defined(ListKeys(store, KeysPath(prefix)))
  /\ observed' = existing'
  /\ pc' = "listed"
  /\ UNCHANGED <<files, inspect, treeInflight, nTree, store, mode, read,
                 readOrder, prefix, config, stats, setInflight, delInflight,
                 nKeys, nSet, nDel, setSent, setFailed, err, exit, run,
                 startStore, history>>

\* consul finds no key: the request is rejected with 'not found', which
\* getExistingKeys turns into []
KeysNotFoundRethrown ==
  /\ pc = "listing"
  /\ keysInflight
  /\ ListKeys(store, KeysPath(prefix)) = <<>>
  /\ keysInflight' = FALSE
  /\ keysReply' = "not found"
  /\ Fail("StoreError")
  /\ UNCHANGED <<files, inspect, treeInflight, nTree, observed, store, mode,
                 read, readOrder, prefix, config, existing, stats,
                 setInflight, delInflight, nKeys, nSet, nDel, setSent,
                 setFailed, run, startStore, history>>
KeysNotFound ==
  /\ pc = "listing"
  /\ keysInflight
  /\ ListKeys(store, KeysPath(prefix)) = <<>>
  /\ keysInflight' = FALSE
  /\ keysReply' = "not found"
  /\ existing' = Defined(<<>>)
  /\ observed' = existing'
  /\ pc' = "listed"
  /\ UNCHANGED <<files, inspect, treeInflight, nTree, store, mode, read,
                 readOrder, prefix, config, stats, setInflight, delInflight,
                 nKeys, nSet, nDel, setSent, setFailed, err, exit, run,
                 startStore, history>>

\* the kv.keys request is rejected with another error, which is rethrown
KeysError ==
  /\ pc = "listing"
  /\ keysInflight
  /\ keysInflight' = FALSE
  /\ keysReply' = "error"
  /\ Fail("StoreError")
  /\ UNCHANGED <<files, inspect, treeInflight, nTree, observed, store, mode,
                 read, readOrder, prefix, config, existing, stats,
                 setInflight, delInflight, nKeys, nSet, nDel, setSent,
                 setFailed, run, startStore, history>>

(* ------------------------------- put ---------------------------------- *)

\* _.filter(workflow.existing, (item) => item !== key)
WithoutNothing(keys, key) == keys
Without(keys, key) == SelectSeq(keys, LAMBDA item : item # key)

\* workflow.existing after the filter has run for every key of keySeq
RECURSIVE WithoutAll(_, _)
WithoutAll(keys, keySeq) ==
  IF keySeq = <<>> THEN keys
  ELSE WithoutAll(Without(keys, Head(keySeq)), Tail(keySeq))

\* the dispatch counts after one more request for every key of keySeq
RECURSIVE BumpAll(_, _)
BumpAll(f, keySeq) ==
  IF keySeq = <<>> THEN f ELSE BumpAll(Bump(f, Head(keySeq)), Tail(keySeq))

\* Promise.all / Promise.map fulfil once no request of the phase is left
NeverFulfilled(inflight) == FALSE
AnyFulfilled(inflight) == TRUE
AllFulfilled(inflight) == inflight = {}

\* the kv.set requests one pass over the keys of toSet sends
DispatchUncounted(toSet) ==
  /\ stats' = stats
  /\ setInflight' = [k \in toSet |-> ToText(config.v[k])]
  /\ setSent' = [k \in DOMAIN setSent \cup toSet |->
                   IF k \in toSet THEN ToText(config.v[k]) ELSE setSent[k]]
  /\ nSet' = BumpAll(nSet, SetToSeq(toSet))
  /\ pc' = IF AllFulfilled(toSet) THEN "put_done" ELSE "putting"
Dispatch(toSet) ==
  /\ stats' = [stats EXCEPT !.put = @ + Cardinality(toSet)]
  /\ setInflight' = [k \in toSet |-> ToText(config.v[k])]
  /\ setSent' = [k \in DOMAIN setSent \cup toSet |->
                   IF k \in toSet THEN ToText(config.v[k]) ELSE setSent[k]]
  /\ nSet' = BumpAll(nSet, SetToSeq(toSet))
  /\ pc' = IF AllFulfilled(toSet) THEN "put_done" ELSE "putting"

\* put: one kv.set per entry of workflow.config, each counted and taken
\* out of workflow.existing as it is sent
Put ==
  /\ pc = "listed"
  /\ mode \in {"exec", "update"}
  /\ Dispatch(DOMAIN config.v)
  /\ existing' = Defined(WithoutAll(existing.v, SetToSeq(DOMAIN config.v)))
  /\ UNCHANGED <<files, inspect, treeInflight, nTree, keysReply, observed,
                 store, mode, read, readOrder, prefix, config, keysInflight,
                 delInflight, nKeys, nDel, setFailed, err, exit, run,
                 startStore, history>>

(* ------------------------------- add ---------------------------------- *)

\* foundItem && Object.keys(foundItem).length > 0, where foundItem is
\* _.find(workflow.existing, (item) => item == key)
ExistsNever(keys, key) == FALSE
Exists(keys, key) == key \in Range(keys) /\ key # <<>> /\ Len(key) > 0

\* add: one kv.set per entry of workflow.config whose key consul lacks
AddMissing ==
  /\ pc = "listed"
  /\ mode = "add"
  /\ Dispatch({k \in DOMAIN config.v : ~Exists(existing.v, k)})
  /\ UNCHANGED <<files, inspect, treeInflight, nTree, keysReply, observed,
                 store, mode, read, readOrder, prefix, config, existing,
                 keysInflight, delInflight, nKeys, nDel, setFailed, err, exit,
                 run, startStore, history>>

(* ------------------------ kv.set settles ------------------------------ *)

\* consul stores the value; the request is fulfilled
SetOk(k) ==
  /\ k \in DOMAIN setInflight
  /\ store' = Assign(store, k, setInflight[k])
  /\ setInflight' = Drop(setInflight, k)
  /\ pc' = IF pc = "putting" /\ AllFulfilled(DOMAIN setInflight \ {k})
             THEN "put_done" ELSE pc
  /\ UNCHANGED <<files, inspect, treeInflight, nTree, keysReply, observed,
                 mode, read, readOrder, prefix, config, existing, stats,
                 keysInflight, delInflight, nKeys, nSet, nDel, setSent,
                 setFailed, err, exit, run, startStore, history>>

\* the request is rejected: Promise.all rejects at once and the driver's
\* handler ends the process
SetFail(k) ==
  /\ k \in DOMAIN setInflight
  /\ setInflight' = Drop(setInflight, k)
  /\ setFailed' = setFailed \cup {k}
  /\ IF pc = "putting" THEN Fail("StoreError") ELSE UNCHANGED <<pc, err, exit>>
  /\ UNCHANGED <<files, inspect, treeInflight, nTree, keysReply, observed,
                 store, mode, read, readOrder, prefix, config, existing,
                 stats, keysInflight, delInflight, nKeys, nSet, nDel, setSent,
                 run, startStore, history>>

(* ------------------------------- del ---------------------------------- *)

\* what follows the put phase: del in exec, nothing in update and add
DeletesAfterPutAlways(m) == TRUE
DeletesAfterPut(m) == m = "exec"

\* del: one kv.del per key left in workflow.existing, each counted
Del ==
  /\ pc = "put_done"
  /\ DeletesAfterPut(mode)
  /\ stats' = [stats EXCEPT !.deleted = @ + Len(existing.v)]
  /\ nDel' = BumpAll(nDel, existing.v)
  /\ delInflight' = Range(existing.v)
  /\ IF AllFulfilled(Range(existing.v))
       THEN pc' = "del_done" /\ existing' = Undefined
       ELSE pc' = "deleting" /\ UNCHANGED existing
  /\ UNCHANGED <<files, inspect, treeInflight, nTree, keysReply, observed,
                 store, mode, read, readOrder, prefix, config, keysInflight,
                 setInflight, nKeys, nSet, setSent, setFailed, err, exit, run,
                 startStore, history>>

\* consul removes the key; after the last one, delete workflow.existing
DelOk(k) ==
  /\ k \in delInflight
  /\ store' = Drop(store, k)
  /\ delInflight' = delInflight \ {k}
  /\ IF pc = "deleting" /\ AllFulfilled(delInflight \ {k})
       THEN pc' = "del_done" /\ existing' = Undefined
       ELSE UNCHANGED <<pc, existing>>
  /\ UNCHANGED <<files, inspect, treeInflight, nTree, keysReply, observed,
                 mode, read, readOrder, prefix, config, stats, keysInflight,
                 setInflight, nKeys, nSet, nDel, setSent, setFailed, err,
                 exit, run, startStore, history>>

\* the request is rejected: Promise.map rejects at once
DelFail(k) ==
  /\ k \in delInflight
  /\ delInflight' = delInflight \ {k}
  /\ IF pc = "deleting" THEN Fail("StoreError") ELSE UNCHANGED <<pc, err, exit>>
  /\ UNCHANGED <<files, inspect, treeInflight, nTree, keysReply, observed,
                 store, mode, read, readOrder, prefix, config, existing,
                 stats, keysInflight, setInflight, nKeys, nSet, nDel, setSent,
                 setFailed, run, startStore, history>>

(* --------------------------- getKeysUnder ----------------------------- *)

\* an inspection ends without a handler having failed: the process runs
\* out of work and ends with status 0
Inspected ==
  /\ pc' = "done"
  /\ exit' = 0
  /\ UNCHANGED err

\* the rejection of an inspection has no handler: the driver dropped the
\* promise, the rejection is reported as unhandled and the process runs out
\* of work, ending with status 0
Unhandled ==
  /\ pc' = "failed"
  /\ err' = "UnhandledRejection"
  /\ exit' = 0

\* workflow.get(program.get, program.json): getKeysUnder reads the branch
\* through consul-kv-object when json is set and lists the keys otherwise
GetKeysUnder ==
  /\ pc = "start"
  /\ mode = "get"
  /\ IF inspect.json
       THEN treeInflight' = TRUE /\ nTree' = nTree + 1
              /\ UNCHANGED <<keysInflight, nKeys>>
       ELSE keysInflight' = TRUE /\ nKeys' = nKeys + 1
              /\ UNCHANGED <<treeInflight, nTree>>
  /\ pc' = "inspecting"
  /\ UNCHANGED <<files, inspect, keysReply, observed, store, mode, read,
                 readOrder, prefix, config, existing, stats, setInflight,
                 delInflight, nSet, nDel, setSent, setFailed, err, exit, run,
                 startStore, history>>

\* the kv.keys request of the inspection is answered with the keys found,
\* which are logged
KeysUnderOk ==
  /\ pc = "inspecting"
  /\ keysInflight
  /\ ListKeys(store, inspect.keypath) # <<>>
  /\ keysInflight' = FALSE
  /\ keysReply' = "keys"
  /\ observed' = Defined(ListKeys(store, inspect.keypath))
  /\ Inspected
  /\ UNCHANGED <<files, inspect, treeInflight, nTree, store, mode, read,
                 readOrder, prefix, config, existing, stats, setInflight,
                 delInflight, nKeys, nSet, nDel, setSent, setFailed, run,
                 startStore, history>>

\* consul finds no key under the path: 'not found' becomes []
KeysUnderNotFound ==
  /\ pc = "inspecting"
  /\ keysInflight
  /\ ListKeys(store, inspect.keypath) = <<>>
  /\ keysInflight' = FALSE
  /\ keysReply' = "not found"
  /\ observed' = Defined(<<>>)
  /\ Inspected
  /\ UNCHANGED <<files, inspect, treeInflight, nTree, store, mode, read,
                 readOrder, prefix, config, existing, stats, setInflight,
                 delInflight, nKeys, nSet, nDel, setSent, setFailed, run,
                 startStore, history>>

\* the kv.keys request of the inspection is rejected with another error,
\* which is rethrown into a promise nobody handles
KeysUnderError ==
  /\ pc = "inspecting"
  /\ keysInflight
  /\ keysInflight' = FALSE
  /\ keysReply' = "error"
  /\ Unhandled
  /\ UNCHANGED <<files, inspect, treeInflight, nTree, observed, store, mode,
                 read, readOrder, prefix, config, existing, stats,
                 setInflight, delInflight, nKeys, nSet, nDel, setSent,
                 setFailed, run, startStore, history>>

\* the branch read is fulfilled and the branch is logged as JSON
TreeOk ==
  /\ pc = "inspecting"
  /\ treeInflight
  /\ treeInflight' = FALSE
  /\ Inspected
  /\ UNCHANGED <<files, inspect, keysInflight, keysReply, nTree, observed,
                 store, mode, read, readOrder, prefix, config, existing,
                 stats, setInflight, delInflight, nKeys, nSet, nDel, setSent,
                 setFailed, run, startStore, history>>

\* the branch read is rejected; its promise has no rejection handler
TreeError ==
  /\ pc = "inspecting"
  /\ treeInflight
  /\ treeInflight' = FALSE
  /\ Unhandled
  /\ UNCHANGED <<files, inspect, keysInflight, keysReply, nTree, observed,
                 store, mode, read, readOrder, prefix, config, existing,
                 stats, setInflight, delInflight, nKeys, nSet, nDel, setSent,
                 setFailed, run, startStore, history>>

(* ------------------------ end of the invocation ----------------------- *)

\* the driver's fulfilment handler: report the statistics; the process
\* ends with status 0
Completed ==
  /\ \/ pc = "put_done" /\ ~DeletesAfterPut(mode)
     \/ pc = "del_done"
  /\ pc' = "done"
  /\ exit' = 0
  /\ UNCHANGED <<files, inspect, treeInflight, nTree, keysReply, observed,
                 store, mode, read, readOrder, prefix, config, existing,
                 stats, keysInflight, setInflight, delInflight, nKeys, nSet,
                 nDel, setSent, setFailed, err, run, startStore, history>>

\* the tool is invoked again with the same arguments: a new process, a new
\* workflow object, the store as the previous invocation left it
Rerun ==
  /\ pc = "done"
  /\ run < MaxRuns
  /\ history' = Append(history, [mode |-> mode, stats |-> stats,
                                 startStore |-> startStore, store |-> store])
  /\ run' = run + 1
  /\ startStore' = store
  /\ pc' = "start"
  /\ read' = Empty
  /\ readOrder' = <<>>
  /\ prefix' = Undefined
  /\ config' = Undefined
  /\ existing' = Undefined
  /\ observed' = Undefined
  /\ stats' = [put |-> 0, deleted |-> 0]
  /\ nKeys' = 0
  /\ nTree' = 0
  /\ keysReply' = "none"
  /\ nSet' = Empty
  /\ nDel' = Empty
  /\ setSent' = Empty
  /\ err' = "none"
  /\ exit' = -1
  /\ UNCHANGED <<files, inspect, store, mode, keysInflight, treeInflight,
                 setInflight, delInflight, setFailed>>

Next ==
  \/ Usage
  \/ Exec
  \/ Update
  \/ Add
  \/ \E i \in 1..Len(files) : ReadPointers(i)
  \/ Reduce
  \/ GetExistingKeys
  \/ KeysOk
  \/ KeysNotFound
  \/ KeysError
  \/ Put
  \/ AddMissing
  \/ \E k \in DOMAIN setInflight : SetOk(k)
  \/ \E k \in DOMAIN setInflight : SetFail(k)
  \/ Del
  \/ \E k \in delInflight : DelOk(k)
  \/ \E k \in delInflight : DelFail(k)
  \/ Completed
  \/ GetKeysUnder
  \/ KeysUnderOk
  \/ KeysUnderNotFound
  \/ KeysUnderError
  \/ TreeOk
  \/ TreeError
  \/ Rerun

Spec == Init /\ [][Next]_vars

\* every file read and every store request settles, and every continuation
\* that has become runnable runs; the invocations start on the empty store
\* and on the store that holds every initial key
FairInit == Init /\ store \in {Empty, [k \in InitialKeys |-> <<"9">>]}
FairSpec == FairInit /\ [][Next]_vars /\ WF_vars(Next)

(* ============================ properties ============================== *)

\* the Desired State and the Observed Keys of the current invocation
Desired == config.v
ObservedKeys == Range(observed.v)

\* k lies under the prefix p: it is p or begins with p and the separator
UnderPrefix(p, k) == k = p \/ IsPrefixOf(p \o <<"/">>, k)

\* every key of f has the count 1 and no other key has a count
OncePerKey(f, keys) == DOMAIN f = keys /\ \A k \in keys : f[k] = 1

\* C1: a full sync that ends in success has sent kv.set exactly once for
\* each key of the Desired State and for no other key, kv.del exactly once
\* for each Observed Key that is not a Desired State key and for no other
\* key, and its statistics are put = |D| and deleted = |O \ keys(D)|.
C1_FullSyncPlan ==
  (mode = "exec" /\ pc = "done") =>
    /\ OncePerKey(nSet, DOMAIN Desired)
    /\ OncePerKey(nDel, ObservedKeys \ DOMAIN Desired)
    /\ stats.put = Cardinality(DOMAIN Desired)
    /\ stats.deleted = Cardinality(ObservedKeys \ DOMAIN Desired)

C1_Witness ==
  /\ mode = "exec" /\ pc = "done"
  /\ ObservedKeys \cap DOMAIN Desired # {}
  /\ ObservedKeys \ DOMAIN Desired # {}
  /\ DOMAIN Desired \ ObservedKeys # {}

\* C2: a full sync (here: one whose prefix is not the empty name) sends
\* kv.del only for keys under the run's prefix, and a key that was in the
\* store outside the run's prefix is still there, with its value, in every
\* later state of the run.
C2_DeletesOnlyUnderPrefix ==
  (mode = "exec" /\ Truthy(prefix)) =>
    /\ \A k \in DOMAIN nDel : UnderPrefix(prefix.v, k)
    /\ \A k \in DOMAIN startStore :
         ~UnderPrefix(prefix.v, k) => (k \in DOMAIN store /\ store[k] = startStore[k])

\* C3: after a full sync that ended in success the store keys under the
\* run's prefix are exactly the Desired State keys, each holding the text
\* of its desired value.
C3_Converged ==
  (mode = "exec" /\ pc = "done") =>
    /\ {k \in DOMAIN store : UnderPrefix(prefix.v, k)} = DOMAIN Desired
    /\ \A k \in DOMAIN Desired : k \in DOMAIN store /\ store[k] = ToText(Desired[k])

\* the add pass has run
AddDispatched == mode = "add" /\ observed.defined /\ pc # "listed"

\* C4: an add run sends kv.set exactly once for each Desired State key that
\* is not an Observed Key and for no other key, never sends kv.del, leaves
\* the stored value of every observed Desired State key as it was, and its
\* statistics are put = |keys(D) \ O| and deleted = 0.
C4_AddOnly ==
  (mode = "add") =>
    /\ nDel = Empty /\ delInflight = {} /\ stats.deleted = 0
    /\ ~AddDispatched => nSet = Empty /\ stats.put = 0
    /\ AddDispatched =>
         /\ OncePerKey(nSet, DOMAIN Desired \ ObservedKeys)
         /\ stats.put = Cardinality(DOMAIN Desired \ ObservedKeys)
         /\ \A k \in DOMAIN Desired \cap ObservedKeys :
              k \in DOMAIN store /\ store[k] = startStore[k]

C4_Witness ==
  /\ mode = "add" /\ pc = "done"
  /\ DOMAIN Desired \cap ObservedKeys # {}
  /\ DOMAIN Desired \ ObservedKeys # {}
  /\ \E k \in DOMAIN Desired \cap ObservedKeys : store[k] # ToText(Desired[k])

\* C5: an update run never sends kv.del and its deleted counter stays 0;
\* every store key that is not a Desired State key stays in the store with
\* its value; an update run that ends in success has sent kv.set exactly
\* once for every Desired State key.
C5_UpdateOnly ==
  (mode = "update") =>
    /\ nDel = Empty /\ delInflight = {} /\ stats.deleted = 0
    /\ \A k \in DOMAIN startStore :
         (config.defined => k \notin DOMAIN Desired) =>
           (k \in DOMAIN store /\ store[k] = startStore[k])
    /\ pc = "done" => OncePerKey(nSet, DOMAIN Desired)

C5_Witness ==
  /\ mode = "update" /\ pc = "done"
  /\ DOMAIN startStore \ DOMAIN Desired # {}
  /\ Desired # Empty

\* the current run and the one before it are full syncs that ended in
\* success, the earlier one having started on an empty store
SecondSyncDone ==
  /\ run >= 2 /\ mode = "exec" /\ pc = "done"
  /\ history[run - 1].mode = "exec"
  /\ history[run - 1].startStore = Empty

\* C6: when a full sync that started on an empty store is followed by a
\* second full sync of the same manifests, the second run ends with
\* deleted = 0 and put = |D| and leaves the store as the first run left it.
C6_Idempotent ==
  SecondSyncDone =>
    /\ stats.deleted = 0
    /\ stats.put = Cardinality(DOMAIN Desired)
    /\ store = history[run - 1].store

C6_Witness == SecondSyncDone /\ Cardinality(DOMAIN Desired) >= 2

\* C7: in a full sync, once a kv.del has been sent no kv.set is in flight
\* and none has failed; so no kv.del is sent while a kv.set is unsettled,
\* and after a failed kv.set no kv.del is sent and deleted stays 0.
C7_DeleteAfterPut ==
  (mode = "exec" /\ (nDel # Empty \/ delInflight # {} \/ stats.deleted > 0)) =>
    (setInflight = Empty /\ setFailed = {})

C7_Witness ==
  /\ mode = "exec" /\ pc = "failed"
  /\ setFailed # {}
  /\ existing.defined /\ existing.v # <<>>
  /\ nDel = Empty

\* C8 as stated: the run has left the put phase, to the delete phase, to
\* success or to failure, only when no kv.set is in flight any more.
C8_JoinBarrier ==
  (nSet # Empty /\ pc \in {"put_done", "deleting", "del_done", "done", "failed"}) =>
    setInflight = Empty

\* C8 amended: the run leaves the put phase for the delete phase or for
\* success only when every kv.set it sent has been fulfilled; the first
\* rejected kv.set ends the put phase at once, in failure, whatever other
\* kv.set requests are still in flight.
C8_JoinOnSuccess ==
  /\ pc \in {"put_done", "deleting", "del_done", "done"} =>
       (setInflight = Empty /\ setFailed = {})
  /\ pc = "putting" => setFailed = {}
  /\ (pc = "failed" /\ setFailed # {}) => (err = "StoreError" /\ exit = 99)

C8_Witness ==
  /\ pc = "failed" /\ setFailed # {} /\ setInflight # Empty

\* the prefix a manifest derives: pointers[1].pointer.substring(1)
DerivedPrefix(file) == Substring1(List(<<>>, file.contents)[2].pointer)

\* every manifest parses and has a top-level property, and two of them
\* derive different prefixes
PrefixesDiffer ==
  /\ \A i \in DOMAIN files :
       files[i].parses /\ Len(KeysOf(files[i].contents)) > 0
  /\ \E i, j \in DOMAIN files :
       DerivedPrefix(files[i]) # DerivedPrefix(files[j])

\* C9: when the manifests all load and two of them derive different
\* prefixes, the run never gets past loading, whatever the order in which
\* the reads complete: it sends no store request and can only end with
\* the prefix-mismatch error.
C9_PrefixMismatchFails ==
  PrefixesDiffer =>
    /\ pc \in {"start", "reading", "failed"}
    /\ pc = "failed" => err = "ConsistencyError"
    /\ nKeys = 0 /\ nSet = Empty /\ nDel = Empty

\* the retained pairs of a manifest, as a set of <<key, value>>
RetainedPairs(file) ==
  LET l == List(<<>>, file.contents)
  IN {<<Substring1(l[j].pointer), l[j].value>> : j \in {n \in DOMAIN l : Retained(l[n])}}

\* the keys among pairs
KeysIn(pairs) == {pr[1] : pr \in pairs}

\* C10: the Desired State has exactly the keys some manifest yields a
\* retained pair for, and the value of each is the one of the last
\* manifest, in command-line order, that yields the key; the order in
\* which the reads completed has no part in it.
C10_LastFileWins ==
  config.defined =>
    LET yields == UNION {{<<i, pr[1], pr[2]>> : pr \in RetainedPairs(files[i])} :
                           i \in DOMAIN files}
    IN /\ DOMAIN Desired = {y[2] : y \in yields}
       /\ \A k \in DOMAIN Desired :
            \E y \in yields :
              /\ y[2] = k /\ y[3] = Desired[k]
              /\ \A later \in yields : later[2] = k => later[1] <= y[1]

C10_Witness ==
  /\ config.defined
  /\ readOrder = <<2, 1>>
  /\ \E k \in DOMAIN Desired :
       /\ k \in KeysIn(RetainedPairs(files[1])) \cap KeysIn(RetainedPairs(files[2]))
       /\ <<k, Desired[k]>> \notin RetainedPairs(files[1])

\* the nodes of a JSON tree as <<key, value>>, the key of a node being the
\* names on its path joined by the separator (atRoot: v is the document)
RECURSIVE Nodes(_, _, _)
Nodes(key, v, atRoot) ==
  LET names == KeysOf(v)
      child(i) == IF v.type = "object" THEN v.members[i][2] ELSE v.items[i]
      childKey(i) == IF atRoot THEN names[i] ELSE key \o <<"/">> \o names[i]
  IN (IF atRoot THEN {} ELSE {<<key, v>>}) \cup
     UNION {Nodes(childKey(i), child(i), FALSE) : i \in DOMAIN names}

\* the nodes of the manifests of the run
AllNodes == UNION {Nodes(<<>>, files[i].contents, TRUE) : i \in DOMAIN files}

\* a string or a finite number
ScalarText(v) == v.type = "string" \/ (v.type = "number" /\ v # Infinity)

\* C11: the Desired State has an entry for a path if and only if some
\* manifest holds a string or a finite number at that path; booleans, null,
\* objects, arrays and non-finite numbers give no entry; the key of an
\* entry is the path without its leading separator.
C11_ProjectionKeys ==
  config.defined =>
    LET nodes == AllNodes
        scalars == {nd[1] : nd \in {x \in nodes : ScalarText(x[2])}}
    IN /\ DOMAIN Desired = scalars
       /\ \A nd \in nodes :
            nd[2].type \in {"boolean", "null", "object", "array"} =>
              (nd[1] \in DOMAIN Desired => nd[1] \in scalars)

C11_Witness ==
  /\ config.defined
  /\ DOMAIN Desired # {}
  /\ \E nd \in AllNodes : nd[2].type = "boolean" /\ nd[1] \notin DOMAIN Desired
  /\ \E nd \in AllNodes : nd[2] = Infinity /\ nd[1] \notin DOMAIN Desired
  /\ \E nd \in AllNodes : nd[2].type = "array" /\ nd[1] \notin DOMAIN Desired

\* the number a decimal text denotes
DigitValue(c) == CHOOSE d \in 0..9 : Decimal(d) = <<c>>
RECURSIVE TextToNumber(_)
TextToNumber(s) ==
  IF Head(s) = "-" THEN 0 - TextToNumber(Tail(s))
  ELSE IF Len(s) = 1 THEN DigitValue(s[1])
  ELSE 10 * TextToNumber(SubSeq(s, 1, Len(s) - 1)) + DigitValue(s[Len(s)])

LoadFails ==
  \E i \in DOMAIN files :
    ~files[i].parses \/ Len(KeysOf(files[i].contents)) = 0

\* C13: when a manifest of a sync, update or add run fails loading, the run
\* never gets past loading and can only end in failure; it sends no kv.keys,
\* kv.set or kv.del and its statistics stay put = 0, deleted = 0.
C13_LoadFailureAborts ==
  (mode \in {"exec", "update", "add"} /\ LoadFails) =>
    /\ pc \in {"start", "reading", "failed"}
    /\ pc = "failed" =>
         (exit = 99 /\ err \in {"ParseError", "SchemaError", "ConsistencyError"})
    /\ nKeys = 0 /\ nSet = Empty /\ nDel = Empty
    /\ stats = [put |-> 0, deleted |-> 0]

C13_Witness ==
  /\ mode \in {"exec", "update", "add"} /\ LoadFails
  /\ pc = "failed" /\ err = "SchemaError"
  /\ readOrder # <<>>

\* C16: every key of the Desired State is the run's prefix or begins with
\* the prefix and the separator.
C16_KeysUnderPrefix ==
  (config.defined /\ prefix.defined) =>
    \A k \in DOMAIN Desired : UnderPrefix(prefix.v, k)

\* the sum of the counts of f
RECURSIVE Total(_)
Total(f) ==
  IF DOMAIN f = {} THEN 0
  ELSE LET k == CHOOSE x \in DOMAIN f : TRUE IN f[k] + Total(Drop(f, k))

\* C17: in a sync, update or add run the put counter is the number of
\* kv.set requests sent so far and the deleted counter the number of kv.del
\* requests sent so far, whatever became of them; so after a sync or update
\* run that a rejected kv.set aborted, put is the number of Desired State
\* keys.
C17_CountersCountDispatches ==
  (mode \in {"exec", "update", "add"}) =>
    /\ stats.put = Total(nSet)
    /\ stats.deleted = Total(nDel)
    /\ (mode \in {"exec", "update"} /\ setFailed # {}) =>
         stats.put = Cardinality(DOMAIN Desired)

C17_Witness ==
  /\ mode \in {"exec", "update"}
  /\ pc = "failed" /\ setFailed # {}
  /\ stats.put >= 2
  /\ \E k \in DOMAIN nSet : k \notin DOMAIN store /\ k \notin setFailed

SyncModes == {"exec", "update", "add"}

\* C14: in a sync, update or add run, a key listing answered 'not found'
\* leaves the run going with no Observed Keys, so that it sends no kv.del
\* and a full sync sends every kv.set; a key listing that fails otherwise
\* ends the run in failure with no kv.set and no kv.del sent.
C14_ListingFailures ==
  (mode \in SyncModes) =>
    /\ keysReply = "not found" =>
         /\ observed = Defined(<<>>)
         /\ nDel = Empty /\ stats.deleted = 0
         /\ pc = "failed" => setFailed # {}
         /\ (mode = "exec" /\ pc # "listed") => OncePerKey(nSet, DOMAIN Desired)
    /\ keysReply = "error" =>
         /\ pc = "failed" /\ err = "StoreError" /\ exit = 99
         /\ nSet = Empty /\ nDel = Empty

C14_Witness ==
  /\ mode = "exec" /\ keysReply = "not found"
  /\ pc = "done" /\ nSet # Empty

\* C15: the process ends with status 0 when the run succeeds and with a
\* non-zero status when an operation of the run failed, in every mode,
\* inspection included; without files and outside inspection it ends with a
\* non-zero status and no store request sent.
C15_ExitStatus ==
  /\ pc = "done" => exit = 0
  /\ pc = "failed" => exit > 0
  /\ pc \notin {"done", "failed"} => exit = -1
  /\ (mode \in SyncModes /\ Len(files) = 0) =>
       (nKeys = 0 /\ nTree = 0 /\ nSet = Empty /\ nDel = Empty)

\* C18: an inspection sends no kv.set and no kv.del, reads no manifest,
\* leaves the statistics at put = 0, deleted = 0 and workflow.config
\* unset, and leaves the store as it was.
C18_InspectReadOnly ==
  (mode = "get") =>
    /\ nSet = Empty /\ nDel = Empty
    /\ setInflight = Empty /\ delInflight = {}
    /\ read = Empty /\ readOrder = <<>>
    /\ stats = [put |-> 0, deleted |-> 0]
    /\ ~config.defined /\ ~prefix.defined
    /\ store = startStore

C18_Witness ==
  /\ mode = "get" /\ pc = "done"
  /\ Len(files) > 0
  /\ observed.defined /\ observed.v # <<>> /\ Range(observed.v) # DOMAIN store

Terminal == pc \in {"done", "failed"}

\* C19: a sync, update or add run whose reads and store requests all
\* settle reaches success or failure, and once there the invocation sends
\* no further store request.
C19_Terminates ==
  /\ (mode \in SyncModes /\ pc = "start") ~> Terminal
  /\ [][(Terminal /\ run' = run) =>
          (nKeys' = nKeys /\ nTree' = nTree /\ nSet' = nSet /\ nDel' = nDel)]_vars

C19_Witness ==
  /\ mode \in SyncModes /\ pc = "failed"
  /\ run = MaxRuns
  /\ setInflight = Empty /\ setFailed # {} /\ nSet # Empty

====
